---------------------------- MODULE Spec2Model ----------------------------
(***************************************************************************)
(* Model of api/rest_api.py: the /api/evaluate handler (evaluate_prompt),  *)
(* its settings validation (validate_settings) and the process-wide        *)
(* environment entry OPENAI_API_KEY it writes.                             *)
(*                                                                         *)
(* All numbers are carried in thousandths (0.3 is 300, 7 is 7000), so that *)
(* int() truncation and the float ranges are exact integer arithmetic.     *)
(***************************************************************************)
EXTENDS Integers, Sequences, FiniteSets, TLC

(***************************************************************************)
(* Bounds of the model.                                                    *)
(***************************************************************************)
NumWorkers == 2
MaxRequests == 2
MaxOverrides == 1
MaxPromptLen == 2

Workers == 1 .. NumWorkers
SeqWorkers == {1}

(***************************************************************************)
(* JSON values as they arrive in the request body.                         *)
(***************************************************************************)
Num(x) == [t |-> "num", n |-> x, s |-> ""]
Str(x) == [t |-> "str", n |-> 0, s |-> x]
Bool(b) == [t |-> "bool", n |-> IF b THEN 1000 ELSE 0, s |-> ""]
Null == [t |-> "null", n |-> 0, s |-> ""]

Truthy(v) ==
    CASE v.t = "num" -> v.n # 0
      [] v.t = "str" -> v.s # ""
      [] v.t = "bool" -> v.n # 0
      [] OTHER -> FALSE

IntLiterals == {"9"}
FloatLiterals == {"9", "0.5"}
LiteralValue(s) == IF s = "9" THEN 9000 ELSE IF s = "0.5" THEN 500 ELSE 0

Trunc(x) == IF x >= 0 THEN (x \div 1000) * 1000 ELSE - (((- x) \div 1000) * 1000)

CanInt(v) == v.t \in {"num", "bool"} \/ (v.t = "str" /\ v.s \in IntLiterals)
CanFloat(v) == v.t \in {"num", "bool"} \/ (v.t = "str" /\ v.s \in FloatLiterals)
int(v) == IF v.t = "str" THEN LiteralValue(v.s) ELSE Trunc(v.n)
float(v) == IF v.t = "str" THEN LiteralValue(v.s) ELSE v.n

min(a, b) == IF b < a THEN b ELSE a
max(a, b) == IF b > a THEN b ELSE a

Exc(type, text) == [type |-> type, text |-> text]
NoExc == Exc("", "")

(***************************************************************************)
(* DEFAULT_SETTINGS and validate_settings.                                 *)
(***************************************************************************)
DEFAULT_SETTINGS ==
    [model |-> Str("gpt-4.1-mini"),
     n_samples |-> Num(7000),
     m |-> Num(6000),
     skeleton_policy |-> Str("closed_book"),
     temperature |-> Num(300),
     h_star |-> Num(50),
     isr_threshold |-> Num(1000),
     margin_extra_bits |-> Num(200),
     B_clip |-> Num(12000),
     clip_mode |-> Str("one-sided"),
     generate_answer |-> Bool(FALSE),
     verbosity |-> Str("low"),
     reasoning_effort |-> Str("minimal")]

Keys == DOMAIN DEFAULT_SETTINGS
IntKeys == {"n_samples", "m"}
FloatKeys == {"temperature", "h_star", "isr_threshold", "margin_extra_bits", "B_clip"}

\* validated = DEFAULT_SETTINGS.copy(); validated.update(settings)
Merged(settings) ==
    [k \in Keys |-> IF k \in DOMAIN settings THEN settings[k] ELSE DEFAULT_SETTINGS[k]]

\* ClampInt without the max(lo, ...) of lines 86-87.
ClampInt_NoLowerBound(v, lo, hi) == Num(min(int(v), hi))
ClampInt(v, lo, hi) == Num(max(lo, min(int(v), hi)))
ClampFloat(v, lo, hi) == Num(max(lo, min(float(v), hi)))

SkeletonPolicies == {"auto", "evidence_erase", "closed_book"}
ClipModes == {"one-sided", "symmetric"}
Verbosities == {"low", "medium", "high"}
ReasoningEfforts == {"minimal", "low", "medium", "high"}

\* EnumOrDefault that keeps any string, recognized or not.
EnumOrDefault_KeepStrings(v, allowed, default) ==
    IF v.t = "str" THEN v ELSE Str(default)
EnumOrDefault(v, allowed, default) ==
    IF v.t = "str" /\ v.s \in allowed THEN v ELSE Str(default)

\* The exception the conversions of lines 86-92 raise, in source order.
ConversionError(settings) ==
    LET v == Merged(settings)
        bad == <<"n_samples", "m", "temperature", "h_star", "isr_threshold",
                 "margin_extra_bits", "B_clip">>
        fails(k) == IF k \in IntKeys THEN ~ CanInt(v[k]) ELSE ~ CanFloat(v[k])
        idx == {i \in 1 .. Len(bad) : fails(bad[i])}
    IN IF idx = {} THEN NoExc
       ELSE LET k == bad[CHOOSE i \in idx : \A j \in idx : i <= j]
            IN IF v[k].t = "null"
               THEN Exc("TypeError", "argument must be a string or a real number")
               ELSE IF k \in IntKeys
                    THEN Exc("ValueError", "invalid literal for int()")
                    ELSE Exc("ValueError", "could not convert string to float")

validate_settings(settings) ==
    LET v == Merged(settings)
    IN [v EXCEPT
          !.n_samples = ClampInt(v.n_samples, 1000, 15000),
          !.m = ClampInt(v.m, 2000, 12000),
          !.temperature = ClampFloat(v.temperature, 0, 1000),
          !.h_star = ClampFloat(v.h_star, 1, 500),
          !.isr_threshold = ClampFloat(v.isr_threshold, 100, 5000),
          !.margin_extra_bits = ClampFloat(v.margin_extra_bits, 0, 5000),
          !.B_clip = ClampFloat(v.B_clip, 1000, 50000),
          !.skeleton_policy = EnumOrDefault(v.skeleton_policy, SkeletonPolicies, "closed_book"),
          !.clip_mode = EnumOrDefault(v.clip_mode, ClipModes, "one-sided"),
          !.verbosity = EnumOrDefault(v.verbosity, Verbosities, "low"),
          !.reasoning_effort = EnumOrDefault(v.reasoning_effort, ReasoningEfforts, "minimal")]


(***************************************************************************)
(* Request inputs.                                                         *)
(***************************************************************************)
Chars == {" ", "q"}
PromptStrings == UNION {[1 .. n -> Chars] : n \in 0 .. MaxPromptLen}

\* A prompt entry of the body: absent, a non-string JSON value, or a string.
PromptInputs ==
    {[present |-> FALSE, isStr |-> TRUE, chars |-> <<>>],
     [present |-> TRUE, isStr |-> FALSE, chars |-> <<>>]}
    \cup {[present |-> TRUE, isStr |-> TRUE, chars |-> c] : c \in PromptStrings}

ApiKeys == {"sk-A", "sk-B"}
StartEnvs == {"", "sk-env"}

InputValues ==
    [model |-> {Str("gpt-4o-mini")},
     n_samples |-> {Num(0), Num(1000), Num(7900), Num(15000), Num(15700), Num(16000),
                    Str("9"), Str("abc"), Null},
     m |-> {Num(1000), Num(1500), Num(2000), Num(6500), Num(12000), Num(13000),
            Str("0.5")},
     skeleton_policy |-> {Str("auto"), Str("evidence_erase"), Str("closed_book"),
                          Str("Auto"), Str("bogus"), Null},
     temperature |-> {Num(-100), Num(0), Num(700), Num(1000), Num(1500), Str("0.5")},
     h_star |-> {Num(0), Num(1), Num(100), Num(500), Num(900), Str("abc")},
     isr_threshold |-> {Num(0), Num(100), Num(500), Num(2000), Num(5000), Num(9000)},
     margin_extra_bits |-> {Num(-1000), Num(0), Num(1000), Num(5000), Num(6000)},
     B_clip |-> {Num(0), Num(1000), Num(20000), Num(50000), Num(60000), Null},
     clip_mode |-> {Str("one-sided"), Str("symmetric"), Str("two-sided"), Num(1000)},
     generate_answer |-> {Bool(TRUE), Bool(FALSE), Str("false"), Num(0), Null},
     verbosity |-> {Str("low"), Str("medium"), Str("high"), Str("minimal")},
     reasoning_effort |-> {Str("minimal"), Str("low"), Str("medium"), Str("high"),
                           Str("max")}]

AllInputValues == UNION {InputValues[k] : k \in Keys}

EmptySettings == [k \in {} |-> Null]

\* Settings mappings that override at most MaxOverrides keys.
RECURSIVE Overrides(_)
Overrides(n) ==
    IF n = 0 THEN {EmptySettings}
    ELSE LET S == Overrides(n - 1)
         IN S \cup {f @@ (k :> v) : f \in S, k \in Keys, v \in AllInputValues}
SettingsInputs ==
    {f \in Overrides(MaxOverrides) : \A k \in DOMAIN f : f[k] \in InputValues[k]}

\* The settings mappings used where the rest of the request varies.
SettingsCases ==
    {EmptySettings,
     [generate_answer |-> Bool(TRUE)],
     [generate_answer |-> Bool(TRUE), isr_threshold |-> Num(500)],
     [generate_answer |-> Str("false"), isr_threshold |-> Num(2000)],
     [n_samples |-> Str("abc")]}

Body(kind, p, k, sn, st) ==
    [kind |-> kind, prompt |-> p, api_key |-> k, settingsNull |-> sn, settings |-> st]
NoPrompt == [present |-> FALSE, isStr |-> TRUE, chars |-> <<>>]
NoBody == Body("none", NoPrompt, "", FALSE, EmptySettings)

\* Bodies of the general request stream: every kind of body, prompt and key.
Bodies ==
    {Body(kind, NoPrompt, "", FALSE, EmptySettings) : kind \in {"malformed", "null", "empty"}}
    \cup {Body("dict", p, k, FALSE, st) :
            p \in PromptInputs, k \in ApiKeys \cup {""}, st \in SettingsCases}
    \cup {Body("dict", p, k, TRUE, EmptySettings) :
            p \in PromptInputs, k \in ApiKeys \cup {""}}

\* Bodies with a usable prompt and key whose settings mapping varies.
SettingsBodies ==
    {Body("dict", [present |-> TRUE, isStr |-> TRUE, chars |-> <<"q">>], "sk-A", FALSE, st) :
       st \in SettingsInputs}

\* Bodies of concurrent requests: default settings, differing credentials.
ConcBodies ==
    {Body("dict", [present |-> TRUE, isStr |-> TRUE, chars |-> <<"q">>], k, FALSE,
          EmptySettings) : k \in ApiKeys \cup {""}}

RECURSIVE lstrip(_)
lstrip(s) == IF s # <<>> /\ Head(s) = " " THEN lstrip(Tail(s)) ELSE s
RECURSIVE rstrip(_)
rstrip(s) == IF s # <<>> /\ s[Len(s)] = " " THEN rstrip(SubSeq(s, 1, Len(s) - 1)) ELSE s
strip(s) == rstrip(lstrip(s))

(***************************************************************************)
(* State.  env is os.environ["OPENAI_API_KEY"] ("" when unset), shared by  *)
(* every request of the process; the other variables are the locals of the *)
(* handler invocation each worker thread is running.                       *)
(***************************************************************************)
VARIABLES
    env,        \* os.environ OPENAI_API_KEY of the process
    startEnv,   \* its value when the process started (after load_dotenv)
    debug,      \* app.debug
    served,     \* requests received so far
    pc,         \* position of each worker inside evaluate_prompt
    data,       \* request body
    prompt,     \* stripped prompt
    api_key,    \* credential chosen at line 182
    settings,   \* validated settings
    item,       \* OpenAIItem
    backend,    \* OpenAIBackend
    planner,    \* OpenAIPlanner
    runArgs,    \* arguments of the planner.run call
    metric,     \* metrics[0]
    result,     \* response result under construction
    resp,       \* response returned
    calls,      \* number of calls made to planner.run, answer generation, certificate
    raised      \* exceptions raised by each step of this request

vars == <<env, startEnv, debug, served, pc, data, prompt, api_key, settings, item,
          backend, planner, runArgs, metric, result, resp, calls, raised>>

NoSettings == [k \in Keys |-> Null]
NoItem == [present |-> FALSE, prompt |-> <<>>, n_samples |-> 0, m |-> 0,
           skeleton_policy |-> Null]
NoBackend == [present |-> FALSE, key |-> "", model |-> Null, verbosity |-> Null,
              reasoning_effort |-> Null]
NoPlanner == [present |-> FALSE, temperature |-> 0]
NoRunArgs == [present |-> FALSE, item |-> NoItem, key |-> "", h_star |-> 0,
              isr_threshold |-> 0, margin_extra_bits |-> 0, B_clip |-> 0,
              clip_mode |-> Null]
NoMetrics == [delta_bar |-> 0, b2t |-> 0, isr |-> 0, roh_bound |-> 0,
              q_conservative |-> 0, q_avg |-> 0]
NoMetric == [present |-> FALSE, values |-> NoMetrics, decision_answer |-> FALSE,
             rationale |-> ""]
NoCertificate == [kind |-> "none", error |-> "", model_name |-> Null, confidence |-> 0,
                  n_items |-> 0]
NoResult == [present |-> FALSE, decision |-> "", decision_answer |-> FALSE,
             rationale |-> "", metrics |-> NoMetrics, hasAnswer |-> FALSE,
             answer |-> "", sla_certificate |-> NoCertificate]
NoResp == [status |-> 0, success |-> FALSE, error |-> "", type |-> "",
           traceback |-> FALSE, result |-> NoResult, settings_used |-> NoSettings]
NoCalls == [run |-> 0, generate |-> 0, aggregate |-> 0, certificate |-> 0]
NoRaised == [run |-> NoExc, generate |-> NoExc, certificate |-> NoExc, outer |-> NoExc]

Init ==
    /\ startEnv \in StartEnvs
    /\ env = startEnv
    /\ debug \in BOOLEAN
    /\ served = 0
    /\ pc = [w \in Workers |-> "idle"]
    /\ data = [w \in Workers |-> NoBody]
    /\ prompt = [w \in Workers |-> <<>>]
    /\ api_key = [w \in Workers |-> ""]
    /\ settings = [w \in Workers |-> NoSettings]
    /\ item = [w \in Workers |-> NoItem]
    /\ backend = [w \in Workers |-> NoBackend]
    /\ planner = [w \in Workers |-> NoPlanner]
    /\ runArgs = [w \in Workers |-> NoRunArgs]
    /\ metric = [w \in Workers |-> NoMetric]
    /\ result = [w \in Workers |-> NoResult]
    /\ resp = [w \in Workers |-> NoResp]
    /\ calls = [w \in Workers |-> NoCalls]
    /\ raised = [w \in Workers |-> NoRaised]

\* The process of the settings specification: no key in the environment,
\* debug off (neither is read by validate_settings).
InitSettings == Init /\ startEnv = "" /\ ~ debug

(***************************************************************************)
(* A request arrives at worker w: a fresh invocation of evaluate_prompt.   *)
(***************************************************************************)
Accept(w, body) ==
    /\ pc[w] = "idle"
    /\ served < MaxRequests
    /\ served' = served + 1
    /\ pc' = [pc EXCEPT ![w] = "parse"]
    /\ data' = [data EXCEPT ![w] = body]
    /\ UNCHANGED <<env, startEnv, debug, prompt, api_key, settings, item, backend, planner,
                   runArgs, metric, result, resp, calls, raised>>

Receive(w) == \E body \in Bodies : Accept(w, body)
ReceiveSettings(w) == \E body \in SettingsBodies : Accept(w, body)
ReceiveConcurrent(w) == \E body \in ConcBodies : Accept(w, body)

(***************************************************************************)
(* The outer except clause, lines 271-282.                                 *)
(***************************************************************************)
\* ErrorResponse hiding the original error behind a generic message.
ErrorResponse_Generic(e) ==
    [NoResp EXCEPT !.status = 500, !.success = FALSE, !.error = "Internal server error",
                   !.type = e.type, !.traceback = debug]

ErrorResponse(e) ==
    [NoResp EXCEPT !.status = 500, !.success = FALSE, !.error = e.text,
                   !.type = e.type, !.traceback = debug]

Fail(w, e) ==
    /\ resp' = [resp EXCEPT ![w] = ErrorResponse(e)]
    /\ raised' = [raised EXCEPT ![w].outer = e]
    /\ pc' = [pc EXCEPT ![w] = "done"]

\* Lines 169-172, 176-179, 184-187: the dict literal names the undefined
\* global false, so building the 400 response raises NameError.
BoundaryReject(message) == Exc("NameError", "name 'false' is not defined")

MsgNoBody == "Request body must be JSON"
MsgNoPrompt == "Prompt is required and cannot be empty"
MsgNoKey == "OpenAI API key is required. Provide it in request body or set OPENAI_API_KEY environment variable."

\* The exception lines 167-190 end in, NoExc when they run through.
ParseError(body, environ) ==
    LET p == strip(body.prompt.chars)
        key == IF body.api_key # "" THEN body.api_key ELSE environ
    IN CASE body.kind = "malformed" -> Exc("BadRequest", "400 Bad Request")
         [] body.kind \in {"null", "empty"} -> BoundaryReject(MsgNoBody)
         [] ~ body.prompt.isStr ->
               Exc("AttributeError", "object has no attribute 'strip'")
         [] p = <<>> -> BoundaryReject(MsgNoPrompt)
         [] key = "" -> BoundaryReject(MsgNoKey)
         [] body.settingsNull -> Exc("TypeError", "'NoneType' object is not iterable")
         [] OTHER -> ConversionError(body.settings)

\* Lines 167-190: parse the body, pick the credential, validate the settings.
ParseRequest(w) ==
    /\ pc[w] = "parse"
    /\ LET e == ParseError(data[w], env)
       IN IF e # NoExc
          THEN /\ Fail(w, e)
               /\ UNCHANGED <<prompt, api_key, settings>>
          ELSE /\ prompt' = [prompt EXCEPT ![w] = strip(data[w].prompt.chars)]
               /\ api_key' = [api_key EXCEPT ![w] =
                     IF data[w].api_key # "" THEN data[w].api_key ELSE env]
               /\ settings' = [settings EXCEPT ![w] = validate_settings(data[w].settings)]
               /\ pc' = [pc EXCEPT ![w] = "setenv"]
               /\ UNCHANGED <<resp, raised>>
    /\ UNCHANGED <<env, startEnv, debug, served, data, item, backend, planner, runArgs,
                   metric, result, calls>>

\* Line 193: os.environ["OPENAI_API_KEY"] = api_key
SetApiKeyEnv(w) ==
    /\ pc[w] = "setenv"
    /\ env' = api_key[w]
    /\ pc' = [pc EXCEPT ![w] = "construct"]
    /\ UNCHANGED <<startEnv, debug, served, data, prompt, api_key, settings, item, backend,
                   planner, runArgs, metric, result, resp, calls, raised>>

(***************************************************************************)
(* Outcomes of the calls into the toolkit.                                 *)
(***************************************************************************)
ConstructErrors == {Exc("OpenAIError", "client construction failed")}
RunErrors == {Exc("BackendError", "sampling failed"), Exc("PolicyError", "m < 2")}
GenerateErrors == {Exc("BackendError", "generation failed")}
AggregateErrors == {Exc("InsufficientDataError", "empty batch")}
CertificateErrors == {Exc("ValueError", "bad report")}
DeltaBars == {0, 1000, 3000}
B2ts == {1000, 2000}
RohBounds == {50}
QConservatives == {100}
QAvgs == {150}
GeneratedAnswers == {"", "Paris"}

\* Lines 196-201: OpenAIItem(prompt, n_samples, m, skeleton_policy)
OpenAIItem(p, st) ==
    [present |-> TRUE, prompt |-> p, n_samples |-> st.n_samples.n, m |-> st.m.n,
     skeleton_policy |-> st.skeleton_policy]

\* Lines 204-207: OpenAIBackend(model=...) is given no credential; it takes
\* the one found in the environment (line 192), then the two hints are set.
OpenAIBackend(st, environ) ==
    [present |-> TRUE, key |-> environ, model |-> st.model, verbosity |-> st.verbosity,
     reasoning_effort |-> st.reasoning_effort]

\* Lines 209-212
OpenAIPlanner(st) == [present |-> TRUE, temperature |-> st.temperature.n]

\* Lines 196-212: item, backend and planner construction.
CreateBackend(w) ==
    /\ pc[w] = "construct"
    /\ \/ /\ item' = [item EXCEPT ![w] = OpenAIItem(prompt[w], settings[w])]
          /\ backend' = [backend EXCEPT ![w] = OpenAIBackend(settings[w], env)]
          /\ planner' = [planner EXCEPT ![w] = OpenAIPlanner(settings[w])]
          /\ pc' = [pc EXCEPT ![w] = "run"]
          /\ UNCHANGED <<resp, raised>>
       \/ \E e \in ConstructErrors :
             /\ item' = [item EXCEPT ![w] = OpenAIItem(prompt[w], settings[w])]
             /\ Fail(w, e)
             /\ UNCHANGED <<backend, planner>>
    /\ UNCHANGED <<env, startEnv, debug, served, data, prompt, api_key, settings, runArgs,
                   metric, result, calls>>

\* The decision rule of planner.run: isr = delta_bar / b2t and
\* decision_answer = (isr >= isr_threshold).
Isr(delta_bar, b2t) == (delta_bar * 1000) \div b2t

PlannerRun(delta_bar, b2t, roh, qc, qa, isr_threshold) ==
    [present |-> TRUE,
     values |-> [delta_bar |-> delta_bar, b2t |-> b2t, isr |-> Isr(delta_bar, b2t),
                 roh_bound |-> roh, q_conservative |-> qc, q_avg |-> qa],
     decision_answer |-> (Isr(delta_bar, b2t) >= isr_threshold),
     rationale |-> "isr compared with isr_threshold"]

\* Lines 215-222: the arguments of planner.run([item], ...)
RunArguments(it, be, st) ==
    [present |-> TRUE, item |-> it, key |-> be.key, h_star |-> st.h_star.n,
     isr_threshold |-> st.isr_threshold.n, margin_extra_bits |-> st.margin_extra_bits.n,
     B_clip |-> st.B_clip.n, clip_mode |-> st.clip_mode]

\* BuildResult reporting delta_bar under the isr key.
BuildResult_IsrSlip(mt) ==
    [NoResult EXCEPT !.present = TRUE,
                     !.decision = IF mt.decision_answer THEN "ANSWER" ELSE "REFUSE",
                     !.decision_answer = mt.decision_answer,
                     !.rationale = mt.rationale,
                     !.metrics = [mt.values EXCEPT !.isr = mt.values.delta_bar]]

\* Lines 227-239
BuildResult(mt) ==
    [NoResult EXCEPT !.present = TRUE,
                     !.decision = IF mt.decision_answer THEN "ANSWER" ELSE "REFUSE",
                     !.decision_answer = mt.decision_answer,
                     !.rationale = mt.rationale,
                     !.metrics = mt.values]

\* Lines 215-239: planner.run, metrics[0], the result dict.
RunEvaluation(w) ==
    /\ pc[w] = "run"
    /\ runArgs' = [runArgs EXCEPT ![w] = RunArguments(item[w], backend[w], settings[w])]
    /\ calls' = [calls EXCEPT ![w].run = @ + 1]
    /\ \/ \E d \in DeltaBars, b \in B2ts, roh \in RohBounds, qc \in QConservatives,
             qa \in QAvgs :
             LET mt == PlannerRun(d, b, roh, qc, qa, settings[w].isr_threshold.n)
             IN /\ metric' = [metric EXCEPT ![w] = mt]
                /\ result' = [result EXCEPT ![w] = BuildResult(mt)]
                /\ pc' = [pc EXCEPT ![w] = "answer"]
                /\ UNCHANGED <<resp, raised>>
       \/ \E e \in RunErrors :
             /\ resp' = [resp EXCEPT ![w] = ErrorResponse(e)]
             /\ raised' = [raised EXCEPT ![w].run = e, ![w].outer = e]
             /\ pc' = [pc EXCEPT ![w] = "done"]
             /\ UNCHANGED <<metric, result>>
    /\ UNCHANGED <<env, startEnv, debug, served, data, prompt, api_key, settings, item,
                   backend, planner>>

\* AnswerBranch without the metric.decision_answer test of line 243.
AnswerBranch_IgnoreDecision(st, mt) ==
    IF Truthy(st.generate_answer) THEN "generate" ELSE "skip"

\* Lines 242-250: which branch of the answer step is taken.
AnswerBranch(st, mt) ==
    IF Truthy(st.generate_answer)
    THEN IF mt.decision_answer THEN "generate" ELSE "refuse"
    ELSE "skip"

MsgNoAnswer == "No answer generated"
MsgRefused == "Request refused - insufficient information confidence"

\* GenerateErrorAnswer dropping the text of the exception.
GenerateErrorAnswer_NoText(e) == "Error generating answer"

\* Line 248
GenerateErrorAnswer(e) == "Error generating answer: " \o e.text

\* Lines 241-250: generate the answer if requested and allowed.
GenerateAnswer(w) ==
    /\ pc[w] = "answer"
    /\ LET branch == AnswerBranch(settings[w], metric[w])
       IN CASE branch = "generate" ->
                 /\ calls' = [calls EXCEPT ![w].generate = @ + 1]
                 /\ \/ \E a \in GeneratedAnswers :
                          /\ result' = [result EXCEPT ![w].hasAnswer = TRUE,
                                ![w].answer = IF a # "" THEN a ELSE MsgNoAnswer]
                          /\ UNCHANGED raised
                    \/ \E e \in GenerateErrors :
                          /\ result' = [result EXCEPT ![w].hasAnswer = TRUE,
                                ![w].answer = GenerateErrorAnswer(e)]
                          /\ raised' = [raised EXCEPT ![w].generate = e]
            [] branch = "refuse" ->
                 /\ result' = [result EXCEPT ![w].hasAnswer = TRUE,
                                             ![w].answer = MsgRefused]
                 /\ UNCHANGED <<calls, raised>>
            [] OTHER -> UNCHANGED <<result, calls, raised>>
    /\ pc' = [pc EXCEPT ![w] = "cert"]
    /\ UNCHANGED <<env, startEnv, debug, served, data, prompt, api_key, settings, item,
                   backend, planner, runArgs, metric, resp>>

\* Lines 260-261: make_sla_certificate(report, model_name, 0.95), asdict(cert)
Certificate(st) ==
    [NoCertificate EXCEPT !.kind = "certificate", !.model_name = st.model,
                          !.confidence = 950, !.n_items = 1000]

\* CertificateError dropping the text of the exception.
CertificateError_NoText(e) ==
    [NoCertificate EXCEPT !.kind = "error", !.error = "Failed to generate certificate"]

\* Line 263
CertificateError(e) ==
    [NoCertificate EXCEPT !.kind = "error",
                          !.error = "Failed to generate certificate: " \o e.text]

\* Lines 265-269
SuccessResponse(res, st) ==
    [NoResp EXCEPT !.status = 200, !.success = TRUE, !.result = res,
                   !.settings_used = st]

\* Lines 252-269: the SLA certificate, then the success response.
GenerateCertificate(w) ==
    /\ pc[w] = "cert"
    /\ \/ /\ calls' = [calls EXCEPT ![w].aggregate = @ + 1, ![w].certificate = @ + 1]
          /\ result' = [result EXCEPT ![w].sla_certificate = Certificate(settings[w])]
          /\ UNCHANGED raised
       \/ \E e \in AggregateErrors :
             /\ calls' = [calls EXCEPT ![w].aggregate = @ + 1]
             /\ result' = [result EXCEPT ![w].sla_certificate = CertificateError(e)]
             /\ raised' = [raised EXCEPT ![w].certificate = e]
       \/ \E e \in CertificateErrors :
             /\ calls' = [calls EXCEPT ![w].aggregate = @ + 1, ![w].certificate = @ + 1]
             /\ result' = [result EXCEPT ![w].sla_certificate = CertificateError(e)]
             /\ raised' = [raised EXCEPT ![w].certificate = e]
    /\ resp' = [resp EXCEPT ![w] = SuccessResponse(result'[w], settings[w])]
    /\ pc' = [pc EXCEPT ![w] = "done"]
    /\ UNCHANGED <<env, startEnv, debug, served, data, prompt, api_key, settings, item,
                   backend, planner, runArgs, metric>>

\* Lines 265-269, 282: the handler returns and its locals are discarded.
Return(w) ==
    /\ pc[w] = "done"
    /\ pc' = [pc EXCEPT ![w] = "idle"]
    /\ data' = [data EXCEPT ![w] = NoBody]
    /\ prompt' = [prompt EXCEPT ![w] = <<>>]
    /\ api_key' = [api_key EXCEPT ![w] = ""]
    /\ settings' = [settings EXCEPT ![w] = NoSettings]
    /\ item' = [item EXCEPT ![w] = NoItem]
    /\ backend' = [backend EXCEPT ![w] = NoBackend]
    /\ planner' = [planner EXCEPT ![w] = NoPlanner]
    /\ runArgs' = [runArgs EXCEPT ![w] = NoRunArgs]
    /\ metric' = [metric EXCEPT ![w] = NoMetric]
    /\ result' = [result EXCEPT ![w] = NoResult]
    /\ resp' = [resp EXCEPT ![w] = NoResp]
    /\ calls' = [calls EXCEPT ![w] = NoCalls]
    /\ raised' = [raised EXCEPT ![w] = NoRaised]
    /\ UNCHANGED <<env, startEnv, debug, served>>

(***************************************************************************)
(* Specifications.  Spec: one worker serving a stream of arbitrary         *)
(* requests.  SpecSettings: one worker, requests differing in their        *)
(* settings mapping.  SpecConcurrent: the threaded server, several workers *)
(* running the handler at once.                                            *)
(***************************************************************************)
Next ==
    \E w \in SeqWorkers :
       \/ Receive(w)
       \/ ParseRequest(w)
       \/ SetApiKeyEnv(w)
       \/ CreateBackend(w)
       \/ RunEvaluation(w)
       \/ GenerateAnswer(w)
       \/ GenerateCertificate(w)
       \/ Return(w)

NextSettings ==
    \E w \in SeqWorkers :
       \/ ReceiveSettings(w)
       \/ ParseRequest(w)
       \/ SetApiKeyEnv(w)
       \/ CreateBackend(w)
       \/ RunEvaluation(w)
       \/ GenerateAnswer(w)
       \/ GenerateCertificate(w)
       \/ Return(w)

NextConcurrent ==
    \E w \in Workers :
       \/ ReceiveConcurrent(w)
       \/ ParseRequest(w)
       \/ SetApiKeyEnv(w)
       \/ CreateBackend(w)
       \/ RunEvaluation(w)
       \/ GenerateAnswer(w)
       \/ GenerateCertificate(w)
       \/ Return(w)

Spec == Init /\ [][Next]_vars
SpecSettings == InitSettings /\ [][NextSettings]_vars
SpecConcurrent == Init /\ [][NextConcurrent]_vars

(***************************************************************************)
(* Properties.                                                             *)
(***************************************************************************)
Validated(w) == settings[w] # NoSettings
RawSetting(w, k) == Merged(data[w].settings)[k]
\* The number a raw setting denotes.
RawValue(v) == IF v.t = "str" THEN LiteralValue(v.s) ELSE v.n

Ranges ==
    [n_samples |-> <<1000, 15000>>, m |-> <<2000, 12000>>, temperature |-> <<0, 1000>>,
     h_star |-> <<1, 500>>, isr_threshold |-> <<100, 5000>>,
     margin_extra_bits |-> <<0, 5000>>, B_clip |-> <<1000, 50000>>]
NumericKeys == DOMAIN Ranges

InRange(k, x) == Ranges[k][1] <= x /\ x <= Ranges[k][2]
ClampedOutside(k, raw, v) ==
    /\ InRange(k, v)
    /\ raw < Ranges[k][1] => v = Ranges[k][1]
    /\ raw > Ranges[k][2] => v = Ranges[k][2]
ItemBounded(w) ==
    runArgs[w].present =>
        /\ InRange("n_samples", runArgs[w].item.n_samples)
        /\ InRange("m", runArgs[w].item.m)

\* C1 as stated: every validated numeric setting lies in its range, a raw value
\* inside the range is returned unchanged, one below becomes the lower bound,
\* one above the upper bound, and the Item handed to planner.run has
\* n_samples in [1,15] and m in [2,12].
C1_AsStated ==
    \A w \in Workers :
       /\ Validated(w) =>
             \A k \in NumericKeys :
                LET raw == RawValue(RawSetting(w, k))
                    v == settings[w][k].n
                IN /\ ClampedOutside(k, raw, v)
                   /\ InRange(k, raw) => v = raw
       /\ ItemBounded(w)

\* C1 amended: as C1, except that an in-range n_samples or m is returned with
\* its fractional part dropped (unchanged when it is a whole number); in-range
\* values of the five float settings are returned unchanged.
C1_Clamped ==
    \A w \in Workers :
       /\ Validated(w) =>
             \A k \in NumericKeys :
                LET raw == RawValue(RawSetting(w, k))
                    v == settings[w][k].n
                IN /\ ClampedOutside(k, raw, v)
                   /\ InRange(k, raw) /\ k \in FloatKeys => v = raw
                   /\ InRange(k, raw) /\ k \in IntKeys =>
                         /\ v <= raw /\ raw < v + 1000 /\ v % 1000 = 0
                         /\ raw % 1000 = 0 => v = raw
       /\ ItemBounded(w)

C1_Witness ==
    \E w \in Workers :
       /\ pc[w] = "done" /\ resp[w].success
       /\ RawValue(RawSetting(w, "n_samples")) = 16000
       /\ runArgs[w].item.n_samples = 15000
       /\ resp[w].settings_used.n_samples.n = 15000

Recognized(v, allowed) == v.t = "str" /\ v.s \in allowed
EnumFallback(w, k, allowed, default) ==
    /\ Recognized(settings[w][k], allowed)
    /\ Recognized(RawSetting(w, k), allowed) => settings[w][k] = RawSetting(w, k)
    /\ ~ Recognized(RawSetting(w, k), allowed) => settings[w][k] = Str(default)

\* C2: validate_settings keeps a recognized skeleton_policy, clip_mode,
\* verbosity and reasoning_effort and replaces any other value by closed_book,
\* one-sided, low and minimal; only recognized values reach OpenAIItem, the
\* backend and planner.run.
C2_EnumsRecognized ==
    \A w \in Workers :
       /\ Validated(w) =>
             /\ EnumFallback(w, "skeleton_policy", {"auto", "evidence_erase", "closed_book"},
                             "closed_book")
             /\ EnumFallback(w, "clip_mode", {"one-sided", "symmetric"}, "one-sided")
             /\ EnumFallback(w, "verbosity", {"low", "medium", "high"}, "low")
             /\ EnumFallback(w, "reasoning_effort", {"minimal", "low", "medium", "high"},
                             "minimal")
       /\ item[w].present =>
             Recognized(item[w].skeleton_policy, {"auto", "evidence_erase", "closed_book"})
       /\ backend[w].present =>
             /\ Recognized(backend[w].verbosity, {"low", "medium", "high"})
             /\ Recognized(backend[w].reasoning_effort, {"minimal", "low", "medium", "high"})
       /\ runArgs[w].present =>
             /\ Recognized(runArgs[w].clip_mode, {"one-sided", "symmetric"})
             /\ Recognized(runArgs[w].item.skeleton_policy,
                           {"auto", "evidence_erase", "closed_book"})

C2_Witness ==
    \E w \in Workers :
       /\ runArgs[w].present
       /\ RawSetting(w, "clip_mode") = Str("two-sided")
       /\ runArgs[w].clip_mode = Str("one-sided")

\* C3: in every success response decision_answer equals
\* (reported isr >= isr_threshold of settings_used), that threshold is the one
\* handed to planner.run, and the label is ANSWER exactly when decision_answer
\* is true and REFUSE otherwise.
C3_ThresholdDecides ==
    \A w \in Workers :
       resp[w].success =>
          LET res == resp[w].result
              threshold == resp[w].settings_used.isr_threshold.n
          IN /\ runArgs[w].isr_threshold = threshold
             /\ res.decision_answer = (res.metrics.isr >= threshold)
             /\ res.decision = (IF res.decision_answer THEN "ANSWER" ELSE "REFUSE")

C3_Witness ==
    \E w \in Workers :
       /\ resp[w].success
       /\ resp[w].result.metrics.isr = resp[w].settings_used.isr_threshold.n
       /\ resp[w].settings_used.isr_threshold.n = 500
       /\ resp[w].result.decision = "ANSWER"

\* C4: every request's backend is constructed, and its sampling done, under
\* the credential that request itself chose (its own api_key).
C4_OwnCredential ==
    \A w \in Workers :
       /\ backend[w].present => backend[w].key = api_key[w]
       /\ runArgs[w].present => runArgs[w].key = api_key[w]

\* C5: in a process started without OPENAI_API_KEY, a request that carries no
\* api_key is never evaluated and never answered with success, whatever
\* earlier requests supplied.
C5_KeylessRejected ==
    \A w \in Workers :
       (startEnv = "" /\ data[w].kind = "dict" /\ data[w].api_key = "") =>
          /\ pc[w] \in {"parse", "done"}
          /\ ~ resp[w].success
          /\ ~ Validated(w)

\* C6: answer generation is called at most once per request, only after
\* planner.run returned, only with generate_answer on and decision_answer
\* true; a refused request that asked for an answer gets the fixed refusal
\* text without a generation call; with generate_answer off there is no answer.
C6_GenerationGuarded ==
    \A w \in Workers :
       /\ calls[w].generate <= 1
       /\ calls[w].generate = 1 =>
             /\ metric[w].present /\ calls[w].run = 1
             /\ Truthy(settings[w].generate_answer)
             /\ metric[w].decision_answer
       /\ (pc[w] = "cert" \/ resp[w].success) =>
             LET res == IF resp[w].success THEN resp[w].result ELSE result[w]
             IN /\ (Truthy(settings[w].generate_answer) /\ ~ metric[w].decision_answer) =>
                      /\ res.hasAnswer /\ res.answer = MsgRefused
                      /\ calls[w].generate = 0
                /\ ~ Truthy(settings[w].generate_answer) =>
                      ~ res.hasAnswer /\ calls[w].generate = 0

C6_Witness ==
    \E w \in Workers :
       /\ resp[w].success
       /\ Truthy(resp[w].settings_used.generate_answer)
       /\ resp[w].result.decision = "REFUSE"
       /\ resp[w].result.answer = MsgRefused
       /\ calls[w].generate = 0

SameDecision(res, mt) ==
    /\ res.decision = (IF mt.decision_answer THEN "ANSWER" ELSE "REFUSE")
    /\ res.decision_answer = mt.decision_answer
    /\ res.rationale = mt.rationale
    /\ res.metrics = mt.values

\* C7: when answer generation raises, the request still ends in a success
\* response with the decision, rationale and metrics of planner.run, the answer
\* is the error string carrying the exception's text, and the certificate
\* step runs afterwards.
C7_GenerationFailureInBand ==
    \A w \in Workers :
       raised[w].generate # NoExc =>
          /\ raised[w].outer = NoExc
          /\ pc[w] \in {"cert", "done"}
          /\ SameDecision(result[w], metric[w])
          /\ result[w].hasAnswer
          /\ result[w].answer = "Error generating answer: " \o raised[w].generate.text
          /\ pc[w] = "done" =>
                /\ resp[w].success /\ resp[w].status = 200
                /\ resp[w].result = result[w]
                /\ calls[w].aggregate = 1
                /\ resp[w].result.sla_certificate.kind \in {"certificate", "error"}

C7_Witness ==
    \E w \in Workers :
       /\ raised[w].generate # NoExc
       /\ pc[w] = "done"
       /\ resp[w].success
       /\ resp[w].result.sla_certificate.kind = "certificate"

\* C8: when planner.aggregate or make_sla_certificate raises, the request
\* ends in a success response whose decision, rationale, metrics and answer
\* are those held before the certificate step, and sla_certificate is an error
\* object carrying the exception's text and no certificate field.
C8_CertificateFailureInBand ==
    [][\A w \in Workers :
          (pc[w] = "cert" /\ raised'[w].certificate # NoExc) =>
             /\ pc'[w] = "done"
             /\ resp'[w].success /\ resp'[w].status = 200
             /\ [resp'[w].result EXCEPT !.sla_certificate = NoCertificate] = result[w]
             /\ SameDecision(resp'[w].result, metric[w])
             /\ resp'[w].result.sla_certificate =
                   [NoCertificate EXCEPT !.kind = "error",
                       !.error = "Failed to generate certificate: "
                                    \o raised'[w].certificate.text]]_vars

C8_Witness ==
    \E w \in Workers :
       /\ pc[w] = "done"
       /\ raised[w].certificate # NoExc
       /\ resp[w].success
       /\ resp[w].result.hasAnswer
       /\ resp[w].result.sla_certificate.kind = "error"

\* C9: an exception out of planner.run, of the constructions or of the
\* settings conversion ends the request in one failure response: status 500,
\* success false, the error's text and type, no result; planner.run is not
\* called again and neither answer generation nor the certificate step runs.
C9_FailureAborts ==
    \A w \in Workers :
       /\ raised[w].run # NoExc => raised[w].outer = raised[w].run
       /\ raised[w].outer # NoExc =>
             /\ pc[w] = "done"
             /\ resp[w].status = 500 /\ ~ resp[w].success
             /\ resp[w].error = raised[w].outer.text
             /\ resp[w].type = raised[w].outer.type
             /\ resp[w].result = NoResult
             /\ resp[w].settings_used = NoSettings
             /\ result[w] = NoResult
             /\ calls[w].run <= 1
             /\ calls[w].generate = 0
             /\ calls[w].aggregate = 0 /\ calls[w].certificate = 0

C9_Witness ==
    \E w \in Workers :
       /\ raised[w].run = Exc("BackendError", "sampling failed")
       /\ pc[w] = "done"
       /\ resp[w].status = 500
       /\ resp[w].error = "sampling failed"

\* C10: a request whose body is null or empty, whose prompt is missing or
\* whitespace-only, or for which neither the body nor the environment holds a
\* key, is answered with status 400, success false and the matching message.
C10_BoundaryRejected400 ==
    \A w \in Workers :
       pc[w] = "done" =>
          LET body == data[w]
              p == strip(body.prompt.chars)
              rejected(msg) == /\ resp[w].status = 400 /\ ~ resp[w].success
                               /\ resp[w].error = msg
          IN /\ body.kind \in {"null", "empty"} => rejected(MsgNoBody)
             /\ (body.kind = "dict" /\ body.prompt.isStr /\ p = <<>>) =>
                   rejected(MsgNoPrompt)
             /\ (body.kind = "dict" /\ body.prompt.isStr /\ p # <<>>
                   /\ body.api_key = "" /\ api_key[w] = "") => rejected(MsgNoKey)

=============================================================================
